---------------------------- MODULE Spec2Model ----------------------------
(* A model of the AppPilot Slack bot's interpretation-and-rendering engine *)
(* (src/slackbot/bin/appctl_slack.py).                                     *)
(*                                                                         *)
(* Strings are sequences of atoms.  For the character-level functions      *)
(* (strip_ansi, normalize_state) an atom is one character; in tool output  *)
(* an atom is a blank " " or an opaque word.  A text is a sequence of      *)
(* lines, a line a record of its indentation, label and value.             *)
EXTENDS Integers, Sequences, FiniteSets, TLC

VARIABLES
    pc,          \* position of the operation under study
    parts,       \* split_flags: the token list handed in
    core,        \* split_flags: tokens kept for the tool, in order
    ctl_flags,   \* split_flags: lifted tool flags
    bot_flags,   \* split_flags: lifted bot-only flags
    state,       \* normalize_state: the raw state string
    text,        \* strip_ansi / parsers: the input text
    result,      \* the value returned by the function under study
    user_text,   \* run_ctl: the command line, as its blank-separated items
    proc,        \* run_ctl: what subprocess.run gave (<<>> before it is called)
    tool_runs,   \* run_ctl: the number of calls of subprocess.run
    payload      \* run_ctl: the returned payload (<<>> before the return)

vars == <<pc, parts, core, ctl_flags, bot_flags, state, text, result,
          user_text, proc, tool_runs, payload>>

\* The variables of run_ctl alone.
runVars == <<user_text, proc, tool_runs, payload>>

\* The value of a variable no operation of the specification at hand uses.
Unused == <<>>

\* run_ctl is not under study.
NoRun == user_text = Unused /\ proc = Unused /\ tool_runs = 0 /\ payload = Unused

-----------------------------------------------------------------------------
(* Sequence helpers *)

RECURSIVE SeqsUpTo(_, _)
\* All sequences over S of length at most n.
SeqsUpTo(S, n) ==
    IF n = 0 THEN {<<>>}
    ELSE LET shorter == SeqsUpTo(S, n - 1)
         IN  shorter \cup {Append(s, x) : s \in {t \in shorter : Len(t) = n - 1}, x \in S}

\* s[from..] (1-based), empty when from is past the end.
Drop(s, from) == IF from > Len(s) THEN <<>> ELSE SubSeq(s, from, Len(s))

-----------------------------------------------------------------------------
(* Characters: str.strip() and str.upper() *)

LowerCase == <<"a","b","c","d","e","f","g","h","i","j","k","l","m",
               "n","o","p","q","r","s","t","u","v","w","x","y","z">>
UpperCase == <<"A","B","C","D","E","F","G","H","I","J","K","L","M",
               "N","O","P","Q","R","S","T","U","V","W","X","Y","Z">>

\* Whitespace as str.strip() sees it.
IsSpace(c) == c \in {" ", "\t", "\n", "\r"}

UpperChar(c) ==
    IF \E i \in 1..Len(LowerCase) : LowerCase[i] = c
    THEN UpperCase[CHOOSE i \in 1..Len(LowerCase) : LowerCase[i] = c]
    ELSE c

LowerChar(c) ==
    IF \E i \in 1..Len(UpperCase) : UpperCase[i] = c
    THEN LowerCase[CHOOSE i \in 1..Len(UpperCase) : UpperCase[i] = c]
    ELSE c

\* str.upper() / str.lower()
Upper(s) == [i \in 1..Len(s) |-> UpperChar(s[i])]
Lower(s) == [i \in 1..Len(s) |-> LowerChar(s[i])]

RECURSIVE LStrip(_)
\* str.lstrip()
LStrip(s) == IF s # <<>> /\ IsSpace(Head(s)) THEN LStrip(Tail(s)) ELSE s

RECURSIVE RStrip(_)
\* str.rstrip()
RStrip(s) ==
    IF s # <<>> /\ IsSpace(s[Len(s)]) THEN RStrip(SubSeq(s, 1, Len(s) - 1)) ELSE s

\* str.strip()
Strip(s) == RStrip(LStrip(s))

-----------------------------------------------------------------------------
(* split_flags *)

\* Bot-only flags (not passed to the tool)
BOT_FLAGS == {"--raw"}

\* A classifier that lifts only the execute flag.
CTL_FLAGS_ExecOnly == {"--exec"}

\* Tool flags that are lifted
CTL_FLAGS == {"--exec", "--all"}

RECURSIVE split_flags_loop(_, _)
\* The for loop of split_flags: acc is (core, ctl_flags, bot_flags) so far.
split_flags_loop(rest, acc) ==
    IF rest = <<>> THEN acc
    ELSE LET p == Head(rest)
         IN  split_flags_loop(Tail(rest),
                IF p \in BOT_FLAGS
                THEN [acc EXCEPT !.bot_flags = Append(@, p)]
                ELSE IF p \in CTL_FLAGS
                THEN [acc EXCEPT !.ctl_flags = Append(@, p)]
                ELSE [acc EXCEPT !.core = Append(@, p)])

split_flags(ps) ==
    split_flags_loop(ps, [core |-> <<>>, ctl_flags |-> <<>>, bot_flags |-> <<>>])

-----------------------------------------------------------------------------
(* normalize_state *)

S_RUNNING  == <<"R","U","N","N","I","N","G">>
S_ACTIVE   == <<"A","C","T","I","V","E">>
S_STOPPED  == <<"S","T","O","P","P","E","D">>
S_INACTIVE == <<"I","N","A","C","T","I","V","E">>
S_DEAD     == <<"D","E","A","D">>
S_FAILED   == <<"F","A","I","L","E","D">>
S_DOWN     == <<"D","O","W","N">>
S_ERROR    == <<"E","R","R","O","R">>
S_UNKNOWN  == <<"U","N","K","N","O","W","N">>

\* A classifier that forgets one word of the STOPPED vocabulary.
normalize_state_NoDead(st) ==
    LET s == Upper(Strip(st))
    IN  IF s \in {S_RUNNING, S_ACTIVE} THEN S_RUNNING
        ELSE IF s \in {S_STOPPED, S_INACTIVE} THEN S_STOPPED
        ELSE IF s \in {S_FAILED, S_DOWN, S_ERROR} THEN S_FAILED
        ELSE IF s # <<>> THEN s ELSE S_UNKNOWN

\* A classifier whose default word is in lower case.
normalize_state_LowerDefault(st) ==
    LET s == Upper(Strip(st))
    IN  IF s \in {S_RUNNING, S_ACTIVE} THEN S_RUNNING
        ELSE IF s \in {S_STOPPED, S_INACTIVE, S_DEAD} THEN S_STOPPED
        ELSE IF s \in {S_FAILED, S_DOWN, S_ERROR} THEN S_FAILED
        ELSE IF s # <<>> THEN s ELSE Lower(S_UNKNOWN)

\* A None argument folds to the empty string (state or ""), which is <<>> here.
normalize_state(st) ==
    LET s == Upper(Strip(st))
    IN  IF s \in {S_RUNNING, S_ACTIVE} THEN S_RUNNING
        ELSE IF s \in {S_STOPPED, S_INACTIVE, S_DEAD} THEN S_STOPPED
        ELSE IF s \in {S_FAILED, S_DOWN, S_ERROR} THEN S_FAILED
        ELSE IF s # <<>> THEN s ELSE S_UNKNOWN

-----------------------------------------------------------------------------
(* strip_ansi: one re.sub pass deleting ESC, "[", parameter bytes,        *)
(* intermediate bytes and one final byte.                                  *)

ESC == "ESC"

\* Parameter bytes 0x30-0x3F
IsParamByte(c) == c \in {"0","1","2","3","4","5","6","7","8","9",":",";","<","=",">","?"}

\* Intermediate bytes 0x20-0x2F (the quote, parenthesis and star characters
\* of the range are left out of the alphabet).
IsIntermediateByte(c) == c \in {" ", "!", "#", "$", "%", "&", "+", ",", "-", ".", "/"}

\* Final bytes 0x40-0x7E: the letters and the punctuation of that range
\* (the backslash and the backquote are left out of the alphabet).
IsFinalByte(c) ==
    \/ \E i \in 1..Len(LowerCase) : c = LowerCase[i] \/ c = UpperCase[i]
    \/ c \in {"@", "[", "]", "^", "_", "{", "|", "}", "~"}

RECURSIVE SkipParamBytes(_, _)
\* The first index >= i of s that holds no parameter byte (Len(s)+1 if none).
SkipParamBytes(s, i) ==
    IF i <= Len(s) /\ IsParamByte(s[i]) THEN SkipParamBytes(s, i + 1) ELSE i

RECURSIVE SkipIntermediateBytes(_, _)
\* The first index >= i of s that holds no intermediate byte.
SkipIntermediateBytes(s, i) ==
    IF i <= Len(s) /\ IsIntermediateByte(s[i]) THEN SkipIntermediateBytes(s, i + 1) ELSE i

\* The index just past a match of the pattern starting at i, or 0 when the
\* pattern does not match at i.  The three classes are disjoint, so the greedy
\* match is the only candidate.
AnsiMatchEnd(s, i) ==
    IF i + 1 <= Len(s) /\ s[i] = ESC /\ s[i + 1] = "["
    THEN LET j == SkipParamBytes(s, i + 2)
             k == SkipIntermediateBytes(s, j)
         IN  IF k <= Len(s) /\ IsFinalByte(s[k]) THEN k + 1 ELSE 0
    ELSE 0

RECURSIVE ansi_sub(_, _)
\* One left-to-right pass of re.sub from index i: non-overlapping matches are
\* deleted, every other atom is copied.
ansi_sub(s, i) ==
    IF i > Len(s) THEN <<>>
    ELSE LET e == AnsiMatchEnd(s, i)
         IN  IF e # 0 THEN ansi_sub(s, e) ELSE <<s[i]>> \o ansi_sub(s, i + 1)

strip_ansi(s) == ansi_sub(s, 1)

-----------------------------------------------------------------------------
(* Specification of split_flags: any short token list is classified *)

MaxParts == 5

\* Positional words, command-specific flags, the three lifted flags, and
\* near misses of the lifted flags.
Tokens == {"status", "--lines", "--RAW", "--raw", "--exec", "--all"}

InitSplit ==
    /\ pc = "ready"
    /\ NoRun
    /\ parts \in SeqsUpTo(Tokens, MaxParts)
    /\ core = <<>> /\ ctl_flags = <<>> /\ bot_flags = <<>>
    /\ state = Unused /\ text = Unused /\ result = Unused

SplitFlags ==
    /\ pc = "ready"
    /\ LET r == split_flags(parts)
       IN  /\ core' = r.core
           /\ ctl_flags' = r.ctl_flags
           /\ bot_flags' = r.bot_flags
    /\ pc' = "done"
    /\ UNCHANGED <<parts, state, text, result, runVars>>

NextSplit == SplitFlags

SpecSplit == InitSplit /\ [][NextSplit]_vars

IsRawFlag(p) == p = "--raw"
IsToolFlag(p) == p = "--exec" \/ p = "--all"
IsCoreToken(p) == ~IsRawFlag(p) /\ ~IsToolFlag(p)

\* C1: split_flags partitions the tokens: bot_flags holds exactly the --raw
\* tokens, ctl_flags exactly the --exec and --all tokens, core every other
\* token, each in the original relative order, and no token is lost or
\* duplicated.
C1_SplitPartitions ==
    pc = "done" =>
        /\ bot_flags = SelectSeq(parts, IsRawFlag)
        /\ ctl_flags = SelectSeq(parts, IsToolFlag)
        /\ core = SelectSeq(parts, IsCoreToken)
        /\ Len(core) + Len(ctl_flags) + Len(bot_flags) = Len(parts)

C1_Witness ==
    /\ pc = "done"
    /\ parts = <<"status", "--exec", "--lines", "--raw", "--all">>
    /\ core = <<"status", "--lines">>
    /\ ctl_flags = <<"--exec", "--all">>
    /\ bot_flags = <<"--raw">>

-----------------------------------------------------------------------------
(* Specification of normalize_state: vocabulary and garbage words in three *)
(* casings, padded with whitespace                                         *)

MaxPad == 1

Pads == SeqsUpTo({" ", "\t"}, MaxPad)

RunningWords == {S_RUNNING, S_ACTIVE}
StoppedWords == {S_STOPPED, S_INACTIVE, S_DEAD}
FailedWords  == {S_FAILED, S_DOWN, S_ERROR}
GarbageWords ==
    { <<>>, S_UNKNOWN, <<"F","O","O">>, <<"D","E","G","R","A","D","E","D">>,
      <<"W","A","R","N","I","N","G">>, <<"N","O","T"," ","U","P">>,
      <<"R","U","N">>, <<"4","0","4">> }

\* Only the first letter in upper case.
Capitalize(w) == IF w = <<>> THEN w ELSE <<Head(w)>> \o Lower(Tail(w))

Casings(w) == {w, Lower(w), Capitalize(w)}

Padded(W) == {l \o c \o r : l \in Pads, r \in Pads, c \in UNION {Casings(w) : w \in W}}

InitState ==
    /\ pc = "ready"
    /\ NoRun
    /\ state \in Padded(RunningWords \cup StoppedWords \cup FailedWords \cup GarbageWords)
    /\ result = Unused
    /\ parts = Unused /\ core = Unused /\ ctl_flags = Unused /\ bot_flags = Unused
    /\ text = Unused

NormalizeState ==
    /\ pc = "ready"
    /\ result' = normalize_state(state)
    /\ pc' = "done"
    /\ UNCHANGED <<parts, core, ctl_flags, bot_flags, state, text, runVars>>

NextState == NormalizeState

SpecState == InitState /\ [][NextState]_vars

CanonicalStates == {S_RUNNING, S_STOPPED, S_FAILED, S_UNKNOWN}

\* C2 as claimed: every input maps to one of the four canonical states, the
\* three vocabularies to their state and everything else to UNKNOWN.
C2_AsClaimed ==
    pc = "done" =>
        /\ result \in CanonicalStates
        /\ state \in Padded(RunningWords) => result = S_RUNNING
        /\ state \in Padded(StoppedWords) => result = S_STOPPED
        /\ state \in Padded(FailedWords) => result = S_FAILED
        /\ state \in Padded(GarbageWords) => result = S_UNKNOWN

\* C2 amended: the three vocabularies map to their canonical state whatever
\* the case and the padding; an input that is empty after trimming maps to
\* UNKNOWN; every other input is returned trimmed and upper-cased, which is
\* one of the four canonical states only for the word UNKNOWN itself.
C2_Amended ==
    pc = "done" =>
        /\ state \in Padded(RunningWords) => result = S_RUNNING
        /\ state \in Padded(StoppedWords) => result = S_STOPPED
        /\ state \in Padded(FailedWords) => result = S_FAILED
        /\ \A g \in GarbageWords :
              state \in Padded({g}) =>
                  /\ result = (IF g = <<>> THEN S_UNKNOWN ELSE g)
                  /\ result \in CanonicalStates <=> g \in {<<>>, S_UNKNOWN}

C2_Witness ==
    /\ pc = "done"
    /\ state = <<"\t", "D", "e", "a", "d", " ">>
    /\ result = S_STOPPED

\* C4: normalize_state is idempotent: normalising its own result changes
\* nothing.
C4_NormalizeIdempotent ==
    pc = "done" => normalize_state(result) = result

C4_Witness ==
    /\ pc = "done"
    /\ state = <<" ", "d", "e", "g", "r", "a", "d", "e", "d">>
    /\ result = <<"D", "E", "G", "R", "A", "D", "E", "D">>
    /\ normalize_state(result) = result

-----------------------------------------------------------------------------
(* Specification of strip_ansi: every short string over an alphabet with   *)
(* one atom of each class                                                  *)

MaxAnsiLen == 6

AnsiAlphabet == {ESC, "[", "1", " ", "m"}

InitAnsi ==
    /\ pc = "ready"
    /\ NoRun
    /\ text \in SeqsUpTo(AnsiAlphabet, MaxAnsiLen)
    /\ result = Unused
    /\ parts = Unused /\ core = Unused /\ ctl_flags = Unused /\ bot_flags = Unused
    /\ state = Unused

StripAnsi ==
    /\ pc = "ready"
    /\ result' = strip_ansi(text)
    /\ pc' = "done"
    /\ UNCHANGED <<parts, core, ctl_flags, bot_flags, state, text, runVars>>

NextAnsi == StripAnsi

SpecAnsi == InitAnsi /\ [][NextAnsi]_vars

\* Whether a control sequence starts somewhere in s.
HasAnsiSequence(s) == \E i \in 1..Len(s) : AnsiMatchEnd(s, i) # 0

\* C3: strip_ansi is idempotent: a second pass over the output of one pass
\* changes nothing, that is, the output holds no control sequence.
C3_StripIdempotent ==
    pc = "done" => strip_ansi(result) = result /\ ~HasAnsiSequence(result)

-----------------------------------------------------------------------------
(* Tool output as lines.  A line "  Label : value" is the record of its    *)
(* indentation (number of leading blanks), its label, the number of blanks *)
(* between label and colon, and its value: every atom after the colon.     *)
(* A line without a label has label "" and its content as value.           *)

Line(ind, label, gap, val) == [ind |-> ind, label |-> label, gap |-> gap, val |-> val]

\* strip_ansi over a text held as lines: control sequences lie inside values.
strip_ansi_lines(t) == [i \in 1..Len(t) |-> [t[i] EXCEPT !.val = strip_ansi(@)]]

\* [ln.rstrip() for ln in clean.splitlines()]
rstrip_lines(t) == [i \in 1..Len(t) |-> [t[i] EXCEPT !.val = RStrip(@)]]

\* A match of ^\s*Label\s*:\s*(.+)\s*$ : the label, any blanks, the colon and
\* at least one character after it.
RxLabel(ln, label) == ln.label = label /\ ln.val # <<>>

\* A match of ^\s*Label:\s*(.+)\s*$ : as RxLabel, the colon right after the label.
RxLabelTight(ln, label) == ln.label = label /\ ln.gap = 0 /\ ln.val # <<>>

\* m.group(1).strip()
Group1(ln) == Strip(ln.val)

-----------------------------------------------------------------------------
(* parse_status_multi_allapps *)

\* Labels made of letters and blanks only, the class [A-Za-z ]+ of rx_kv.
AlphaLabels ==
    {"Client", "Host", "Env", "App", "APP", "Service", "Port", "Run As", "RunAs",
     "State", "Listen", "Listening", "Unit", "Component", "Memory", "Active"}

\* A match of rx_kv: two blanks of indentation, an alphabetic label, a value.
RxKv(ln) == ln.ind >= 2 /\ ln.label \in AlphaLabels /\ ln.val # <<>>

\* The field a key-value label sets: key.startswith(...) on the lower-cased
\* label, in the order of the elif chain; "" when no branch takes it.
KvField(label) ==
    IF label = "Service" THEN "Service"
    ELSE IF label = "Port" THEN "Port"
    ELSE IF label = "Run As" THEN "RunAs"
    ELSE IF label = "State" THEN "State"
    ELSE IF label \in {"Listen", "Listening"} THEN "Listen"
    ELSE ""

NewSection(c, h, e) == [Client |-> c, Host |-> h, Env |-> e, apps |-> <<>>]

NewApp(name) ==
    [App |-> name, Service |-> <<>>, Port |-> <<>>, RunAs |-> <<>>,
     State |-> <<>>, Listen |-> <<>>]

\* The parser's locals: sections, cur and cur_app (<<>> is None, <<x>> is x).
MultiStart == [sections |-> <<>>, cur |-> <<>>, cur_app |-> <<>>]

flush_app(st) ==
    IF st.cur # <<>> /\ st.cur_app # <<>>
    THEN [st EXCEPT !.cur = <<[st.cur[1] EXCEPT !.apps = Append(@, st.cur_app[1])]>>,
                    !.cur_app = <<>>]
    ELSE [st EXCEPT !.cur_app = <<>>]

flush_section(st) ==
    IF st.cur # <<>>
    THEN LET f == flush_app(st)
         IN  [f EXCEPT !.sections = Append(@, f.cur[1]), !.cur = <<>>]
    ELSE [st EXCEPT !.cur = <<>>]

\* The body of the for loop over the lines.
multi_line(st, ln) ==
    LET v == Group1(ln)
    IN  IF RxLabel(ln, "Client")
        THEN [st EXCEPT !.cur = IF st.cur = <<>> THEN <<NewSection(v, <<>>, <<>>)>>
                                ELSE <<[st.cur[1] EXCEPT !.Client = v]>>]
        ELSE IF RxLabel(ln, "Host")
        THEN [st EXCEPT !.cur = IF st.cur = <<>> THEN <<NewSection(<<>>, v, <<>>)>>
                                ELSE <<[st.cur[1] EXCEPT !.Host = v]>>]
        ELSE IF RxLabel(ln, "Env")
        THEN [st EXCEPT !.cur = IF st.cur = <<>> THEN <<NewSection(<<>>, <<>>, v)>>
                                ELSE <<[st.cur[1] EXCEPT !.Env = v]>>]
        ELSE IF RxLabelTight(ln, "APP")
        THEN LET s1 == IF st.cur = <<>>
                       THEN [st EXCEPT !.cur = <<NewSection(<<>>, <<>>, <<>>)>>]
                       ELSE st
             IN  [flush_app(s1) EXCEPT !.cur_app = <<NewApp(v)>>]
        ELSE IF RxKv(ln) /\ st.cur_app # <<>> /\ KvField(ln.label) # ""
        THEN [st EXCEPT !.cur_app = <<[st.cur_app[1] EXCEPT ![KvField(ln.label)] = v]>>]
        ELSE st

RECURSIVE multi_loop(_, _)
multi_loop(st, lines) ==
    IF lines = <<>> THEN st ELSE multi_loop(multi_line(st, Head(lines)), Tail(lines))

parse_status_multi_allapps(output) ==
    flush_section(multi_loop(MultiStart, strip_ansi_lines(output))).sections

-----------------------------------------------------------------------------
(* Specification of parse_status_multi_allapps: reports made of header     *)
(* groups, each followed by app blocks                                     *)

MaxGroups == 2
MaxApps == 2

\* The header lines a group may carry, and the sub-lines an app may carry.
HeaderVariants == {<<"Client", "Host", "Env">>, <<"Host">>, <<"Env", "Client">>}
KvVariants == {<<"Service", "Port", "State", "Listen">>, <<"State">>, <<>>}

GroupShapes == [hdr : HeaderVariants, apps : SeqsUpTo(KvVariants, MaxApps)]

\* "Client: Client1": the value names the group it belongs to.
HeaderLineOf(label, g) == Line(0, label, 0, <<" ", label \o ToString(g)>>)

\* "APP: app1.2": the value names the group and the position in it.
AppName(g, k) == "app" \o ToString(g) \o "." \o ToString(k)
AppLineOf(g, k) == Line(0, "APP", 0, <<" ", AppName(g, k)>>)

\* "  State: active", the state in colour for the first app of a group.
KvLineOf(label, g, k) ==
    Line(2, label, 0,
         IF label = "State"
         THEN (IF k = 1 THEN <<" ", ESC, "[", "3", "2", "m", "active", ESC, "[", "0", "m">>
                        ELSE <<" ", "failed", " ">>)
         ELSE <<" ", label \o ToString(g) \o "." \o ToString(k)>>)

RECURSIVE RenderApps(_, _, _)
RenderApps(apps, g, k) ==
    IF k > Len(apps) THEN <<>>
    ELSE <<AppLineOf(g, k)>>
         \o [i \in 1..Len(apps[k]) |-> KvLineOf(apps[k][i], g, k)]
         \o RenderApps(apps, g, k + 1)

RECURSIVE RenderGroups(_, _)
RenderGroups(gs, g) ==
    IF g > Len(gs) THEN <<>>
    ELSE [i \in 1..Len(gs[g].hdr) |-> HeaderLineOf(gs[g].hdr[i], g)]
         \o RenderApps(gs[g].apps, g, 1)
         \o RenderGroups(gs, g + 1)

MultiReports == {RenderGroups(gs, 1) : gs \in SeqsUpTo(GroupShapes, MaxGroups)}

InitMulti ==
    /\ pc = "ready"
    /\ NoRun
    /\ text \in MultiReports
    /\ result = Unused
    /\ parts = Unused /\ core = Unused /\ ctl_flags = Unused /\ bot_flags = Unused
    /\ state = Unused

ParseMulti ==
    /\ pc = "ready"
    /\ result' = parse_status_multi_allapps(text)
    /\ pc' = "done"
    /\ UNCHANGED <<parts, core, ctl_flags, bot_flags, state, text, runVars>>

NextMulti == ParseMulti

SpecMulti == InitMulti /\ [][NextMulti]_vars

IsGroupHeader(ln) == ln.label \in {"Client", "Host", "Env"}

\* Line i opens a header group: a header line not preceded by a header line.
GroupStart(t, i) == IsGroupHeader(t[i]) /\ (i = 1 \/ ~IsGroupHeader(t[i - 1]))

\* The number of header groups opened up to line i.
GroupOf(t, i) == Cardinality({j \in 1..i : GroupStart(t, j)})

\* The names on the APP: lines that follow header group g, in input order.
AppNamesOfGroup(t, g) ==
    LET F[i \in 0..Len(t)] ==
            IF i = 0 THEN <<>>
            ELSE IF t[i].label = "APP" /\ GroupOf(t, i) = g
                 THEN Append(F[i - 1], Strip(t[i].val))
                 ELSE F[i - 1]
    IN  F[Len(t)]

AppNames(sec) == [k \in 1..Len(sec.apps) |-> sec.apps[k].App]

\* C5: the parser returns one section per header group, each holding exactly
\* the apps that follow its own header group, in input order (two groups of
\* two apps give two sections of two rows).
C5_SectionPerHeaderGroup ==
    pc = "done" =>
        /\ Len(result) = GroupOf(text, Len(text))
        /\ \A s \in 1..Len(result) : AppNames(result[s]) = AppNamesOfGroup(text, s)

-----------------------------------------------------------------------------
(* parse_header_details *)

\* header_patterns, in order.  Each pattern allows blanks before the colon.
HeaderKeys == <<"Client", "Host", "Env", "App", "Service", "RunAs">>

\* The dict info: a key that is not set holds <<>> (a value that is set is
\* never empty, since the lines are right-stripped before they are matched).
NoHeader == [k \in {HeaderKeys[i] : i \in 1..Len(HeaderKeys)} |-> <<>>]

\* The inner loop with the test "key not in info" left out.
header_line_LastWins(info, ln) ==
    IF ln.label \in DOMAIN info /\ RxLabel(ln, ln.label)
    THEN [info EXCEPT ![ln.label] = Group1(ln)]
    ELSE info

\* The inner loop over the patterns for one line: at most one pattern carries
\* the label of the line.
header_line(info, ln) ==
    IF ln.label \in DOMAIN info /\ RxLabel(ln, ln.label) /\ info[ln.label] = <<>>
    THEN [info EXCEPT ![ln.label] = Group1(ln)]
    ELSE info

RECURSIVE header_loop(_, _)
header_loop(info, lines) ==
    IF lines = <<>> THEN info ELSE header_loop(header_line(info, Head(lines)), Tail(lines))

parse_header_details(output) ==
    header_loop(NoHeader, rstrip_lines(strip_ansi_lines(output)))

\* dict.get(key, default)
Get(info, key, default) == IF info[key] = <<>> THEN default ELSE info[key]

-----------------------------------------------------------------------------
(* parse_component_status_section *)

S_MAIN == <<"MAIN">>
S_Unknown == <<"Unknown">>

\* "Component:" in section_text: a label directly followed by its colon.
HasMarker(t, label) == \E i \in 1..Len(t) : t[i].label = label /\ t[i].gap = 0

RECURSIVE main_state_loop(_)
\* The first loop: the value of the first line matching Main-State, trimmed.
main_state_loop(lines) ==
    IF lines = <<>> THEN <<>>
    ELSE IF RxLabelTight(Head(lines), "Main-State") THEN Group1(Head(lines))
    ELSE main_state_loop(Tail(lines))

Row(name, unit, st) == [Name |-> name, Unit |-> unit, State |-> st]

\* flush(): the open component, if any, becomes a row.
comp_flush(st) ==
    [rows |-> IF st.cur_name # <<>>
              THEN Append(st.rows, Row(st.cur_name, st.cur_unit, st.cur_state))
              ELSE st.rows,
     cur_name |-> <<>>, cur_state |-> <<>>, cur_unit |-> <<>>]

\* The body of the second loop.
comp_line(st, ln) ==
    IF RxLabelTight(ln, "Component")
    THEN [comp_flush(st) EXCEPT !.cur_name = Group1(ln)]
    ELSE IF RxLabelTight(ln, "State") /\ st.cur_name # <<>>
    THEN [st EXCEPT !.cur_state = Group1(ln)]
    ELSE IF RxLabel(ln, "Unit") /\ st.cur_name # <<>>
    THEN [st EXCEPT !.cur_unit = Group1(ln)]
    ELSE st

RECURSIVE comp_loop(_, _)
comp_loop(st, lines) ==
    IF lines = <<>> THEN st ELSE comp_loop(comp_line(st, Head(lines)), Tail(lines))

\* A parser that forgets the flush after the loop.
component_rows_NoFinalFlush(rows0, lines) ==
    comp_loop([rows |-> rows0, cur_name |-> <<>>, cur_state |-> <<>>,
               cur_unit |-> <<>>], lines).rows

\* The rows after the second loop and its final flush, from the rows so far.
component_rows(rows0, lines) ==
    comp_flush(comp_loop([rows |-> rows0, cur_name |-> <<>>, cur_state |-> <<>>,
                          cur_unit |-> <<>>], lines)).rows

\* None is <<>>, a section sec is <<sec>>.
parse_component_status_section(section_text) ==
    IF ~HasMarker(section_text, "Component") /\ ~HasMarker(section_text, "Main-State")
    THEN <<>>
    ELSE LET hdr == parse_header_details(section_text)
             main_state == main_state_loop(section_text)
             service_unit == Get(hdr, "Service", <<>>)
             rows0 == IF service_unit # <<>> \/ main_state # <<>>
                      THEN <<Row(S_MAIN, service_unit, main_state)>>
                      ELSE <<>>
             rows == component_rows(rows0, section_text)
         IN  IF rows = <<>> THEN <<>>
             ELSE << [Client |-> Get(hdr, "Client", S_Unknown),
                      Host |-> Get(hdr, "Host", S_Unknown),
                      Env |-> Get(hdr, "Env", S_Unknown),
                      App |-> Get(hdr, "App", S_Unknown),
                      rows |-> rows] >>

-----------------------------------------------------------------------------
(* Specification of parse_component_status_section: chunks made of a       *)
(* preamble, component blocks and a trailer                                *)

MaxComps == 2

ServiceLine == Line(0, "Service", 0, <<" ", "dw.service">>)
MainStateLine == Line(0, "Main-State", 0, <<" ", "active">>)
\* "Main-State: " with nothing but a blank after the colon
MainStateBlank == Line(0, "Main-State", 0, <<" ">>)
HostLine == Line(0, "Host", 0, <<" ", "host1">>)
\* A State line outside every component
StrayState == Line(0, "State", 0, <<" ", "failed">>)

Preambles ==
    { <<>>, <<ServiceLine>>, <<MainStateLine>>, <<HostLine, ServiceLine, MainStateLine>>,
      <<MainStateLine, ServiceLine>>, <<MainStateBlank, MainStateLine>>,
      <<StrayState>>, <<MainStateBlank>>, <<HostLine>> }

Trailers ==
    { <<>>, <<Line(0, "Service", 0, <<" ", "late.service">>)>>,
      <<Line(0, "Main-State", 0, <<" ", "failed">>)>> }

\* The lines between one Component line and the next, by label; a second
\* State line carries another value than the first.
CompBodies ==
    { <<>>, <<"State">>, <<"Unit">>, <<"State", "Unit">>, <<"Unit", "State">>,
      <<"State", "State">>, <<"State", "Unit", "State">> }

CompShapes == [named : BOOLEAN, body : CompBodies]

CompLineOf(named, k) ==
    Line(0, "Component", 0, IF named THEN <<" ", "comp" \o ToString(k)>> ELSE <<" ">>)

BodyLineOf(label, k, i) ==
    IF label = "State"
    THEN Line(2, "State", 0, <<" ", IF i = 1 THEN "active" ELSE "failed">>)
    ELSE Line(2, "Unit", 1, <<" ", "unit" \o ToString(k) \o ".service", " ">>)

RECURSIVE RenderComps(_, _)
RenderComps(cs, k) ==
    IF k > Len(cs) THEN <<>>
    ELSE <<CompLineOf(cs[k].named, k)>>
         \o [i \in 1..Len(cs[k].body) |-> BodyLineOf(cs[k].body[i], k, i)]
         \o RenderComps(cs, k + 1)

ComponentChunks ==
    { pre \o RenderComps(cs, 1) \o post :
        pre \in Preambles, cs \in SeqsUpTo(CompShapes, MaxComps), post \in Trailers }

InitComp ==
    /\ pc = "ready"
    /\ NoRun
    /\ text \in ComponentChunks
    /\ result = Unused
    /\ parts = Unused /\ core = Unused /\ ctl_flags = Unused /\ bot_flags = Unused
    /\ state = Unused

ParseComponent ==
    /\ pc = "ready"
    /\ result' = parse_component_status_section(text)
    /\ pc' = "done"
    /\ UNCHANGED <<parts, core, ctl_flags, bot_flags, state, text, runVars>>

NextComp == ParseComponent

SpecComp == InitComp /\ [][NextComp]_vars

\* The lines of t that carry the label, the colon right after it, and a value
\* that is not blank.
ValuedLines(t, label) ==
    {i \in 1..Len(t) : t[i].label = label /\ t[i].gap = 0 /\ Strip(t[i].val) # <<>>}

Min(S) == CHOOSE x \in S : \A y \in S : x <= y
Max(S) == CHOOSE x \in S : \A y \in S : x >= y

\* The value of the first line of t in the set I, trimmed; "" when I is empty.
FirstValue(t, I) == IF I = {} THEN <<>> ELSE Strip(t[Min(I)].val)
LastValue(t, I) == IF I = {} THEN <<>> ELSE Strip(t[Max(I)].val)

\* The value the Main-State line gives: that of the first such line.
MainStateOf(t) == FirstValue(t, {i \in 1..Len(t) : t[i].label = "Main-State" /\ t[i].val # <<>>})

\* The Service header value: that of the first Service line with a value.
ServiceOf(t) == FirstValue(t, {i \in 1..Len(t) : t[i].label = "Service" /\ Strip(t[i].val) # <<>>})

\* The lines while the component opened at line p is open: up to the next
\* Component line.
OpenLines(t, p) ==
    {i \in (p + 1)..Len(t) :
        \A j \in (p + 1)..i : ~(t[j].label = "Component" /\ t[j].val # <<>>)}

\* The row expected of the component opened at line p.
ExpectedRow(t, p) ==
    Row(Strip(t[p].val),
        LastValue(t, {i \in OpenLines(t, p) : t[i].label = "Unit" /\ t[i].val # <<>>}),
        LastValue(t, {i \in OpenLines(t, p) : t[i].label = "State" /\ t[i].val # <<>>}))

\* The rows expected of the named Component lines of t, in input order.
ExpectedCompRows(t) ==
    LET F[i \in 0..Len(t)] ==
            IF i = 0 THEN <<>>
            ELSE IF i \in ValuedLines(t, "Component")
                 THEN Append(F[i - 1], ExpectedRow(t, i))
                 ELSE F[i - 1]
    IN  F[Len(t)]

HasMainRow(t) == MainStateOf(t) # <<>> \/ ServiceOf(t) # <<>>

ExpectedRows(t) ==
    (IF HasMainRow(t) THEN <<Row(S_MAIN, ServiceOf(t), MainStateOf(t))>> ELSE <<>>)
    \o ExpectedCompRows(t)

\* The chunk carries one of the two markers of a component report.
MarkerPresent(t) ==
    \E i \in 1..Len(t) : t[i].label \in {"Component", "Main-State"} /\ t[i].gap = 0

\* C6 as claimed: in a chunk with a Main-State line or a Service header value
\* the row MAIN is the first row, followed by one row per Component line in
\* input order; a chunk that gives no row gives no section.
C6_AsClaimed ==
    pc = "done" =>
        /\ (\E i \in 1..Len(text) : text[i].label = "Main-State") \/ ServiceOf(text) # <<>>
              => /\ result # <<>>
                 /\ result[1].rows = <<Row(S_MAIN, ServiceOf(text), MainStateOf(text))>>
                                      \o ExpectedCompRows(text)
        /\ result # <<>> => result[1].rows # <<>>

\* C6 amended: in a chunk that carries a Component: or Main-State: marker,
\* when the first Main-State line has a value that is not blank or a Service
\* header value is present the row MAIN comes first; it is followed by one
\* row per named Component line in input order, each with the last State and
\* Unit seen while it was open; a chunk without marker, or one that gives no
\* row, gives no section.
C6_ComponentRows ==
    pc = "done" =>
        /\ result = <<>> <=> (~MarkerPresent(text) \/ ExpectedRows(text) = <<>>)
        /\ result # <<>> =>
              /\ result[1].rows = ExpectedRows(text)
              /\ HasMainRow(text) => result[1].rows[1].Name = S_MAIN

\* One Main-State line, one Service header and two component blocks: three
\* rows, MAIN first.
C6_Witness ==
    /\ pc = "done"
    /\ Cardinality(ValuedLines(text, "Main-State")) = 1
    /\ Cardinality(ValuedLines(text, "Service")) = 1
    /\ Cardinality(ValuedLines(text, "Component")) = 2
    /\ result # <<>>
    /\ Len(result[1].rows) = 3
    /\ result[1].rows[1] = Row(S_MAIN, <<"dw.service">>, <<"active">>)
    /\ result[1].rows[2] = Row(<<"comp1">>, <<"unit1.service">>, <<"active">>)
    /\ result[1].rows[3] = Row(<<"comp2">>, <<"unit2.service">>, <<"failed">>)

-----------------------------------------------------------------------------
(* Texts as strings: strip, join and slice *)

RECURSIVE Blanks(_)
Blanks(n) == IF n = 0 THEN <<>> ELSE <<" ">> \o Blanks(n - 1)

\* The atoms of one line.
FlattenLine(ln) ==
    Blanks(ln.ind)
    \o (IF ln.label = "" THEN <<>> ELSE <<ln.label>> \o Blanks(ln.gap) \o <<":">>)
    \o ln.val

RECURSIVE FlattenText(_)
\* The atoms of a text: its lines joined by newlines.
FlattenText(t) ==
    IF t = <<>> THEN <<>>
    ELSE IF Len(t) = 1 THEN FlattenLine(t[1])
    ELSE FlattenLine(t[1]) \o <<"\n">> \o FlattenText(Tail(t))

\* A line of whitespace only.
IsBlankLine(ln) == ln.label = "" /\ Strip(ln.val) = <<>>

RECURSIVE DropLeadingBlank(_)
DropLeadingBlank(t) ==
    IF t # <<>> /\ IsBlankLine(Head(t)) THEN DropLeadingBlank(Tail(t)) ELSE t

RECURSIVE DropTrailingBlank(_)
DropTrailingBlank(t) ==
    IF t # <<>> /\ IsBlankLine(t[Len(t)])
    THEN DropTrailingBlank(SubSeq(t, 1, Len(t) - 1)) ELSE t

\* str.strip() of a whole text: blank lines at both ends go, the first line
\* loses its indentation and the last line its trailing whitespace.
StripText(t) ==
    LET a == DropTrailingBlank(DropLeadingBlank(t))
        first(ln) == IF ln.label = "" THEN [ln EXCEPT !.ind = 0, !.val = LStrip(@)]
                     ELSE [ln EXCEPT !.ind = 0]
        last(ln) == [ln EXCEPT !.val = RStrip(@)]
    IN  [i \in 1..Len(a) |->
            LET l1 == IF i = 1 THEN first(a[i]) ELSE a[i]
            IN  IF i = Len(a) THEN last(l1) ELSE l1]

\* The number of characters of an atom.
AtomLen(a) == IF a = ESC THEN 1 ELSE Len(a)

RECURSIVE StrLen(_)
\* len(s) for a string s held as atoms, by halves.
StrLen(s) ==
    IF s = <<>> THEN 0
    ELSE IF Len(s) = 1 THEN AtomLen(s[1])
    ELSE LET h == Len(s) \div 2
         IN  StrLen(SubSeq(s, 1, h)) + StrLen(SubSeq(s, h + 1, Len(s)))

RECURSIVE Truncate(_, _)
\* s[:n] for a string s held as atoms, by halves.
Truncate(s, n) ==
    IF s = <<>> \/ n <= 0 THEN <<>>
    ELSE IF Len(s) = 1
    THEN (IF AtomLen(s[1]) <= n THEN s ELSE <<SubSeq(s[1], 1, n)>>)
    ELSE LET h == Len(s) \div 2
             left == SubSeq(s, 1, h)
         IN  Truncate(left, n) \o Truncate(SubSeq(s, h + 1, Len(s)), n - StrLen(left))

\* The ceiling on raw text: cleaned[:3900]
RAW_LIMIT == 3900

-----------------------------------------------------------------------------
(* parse_status_details_systemctl *)

\* The words the state search looks for in the lower-cased Active line, as
\* the atoms that contain them.
AtomKeywords(a) ==
    IF a \in {"(running)", "running", "Running"} THEN {"running"}
    ELSE IF a \in {"inactive", "Inactive"} THEN {"inactive"}
    ELSE IF a \in {"(dead)", "dead"} THEN {"dead"}
    ELSE IF a \in {"failed", "(failed)", "FAILED"} THEN {"failed"}
    ELSE {}

LineKeywords(ln) == UNION {AtomKeywords(ln.val[i]) : i \in 1..Len(ln.val)}

RECURSIVE FirstIndex(_, _, _)
\* The first index >= i of a line of t with the label right before its colon,
\* 0 if there is none: ln.strip().startswith("Label:")
FirstIndex(t, label, i) ==
    IF i > Len(t) THEN 0
    ELSE IF t[i].label = label /\ t[i].gap = 0 THEN i
    ELSE FirstIndex(t, label, i + 1)

RECURSIVE FindSince(_, _)
\* The index of the first " since " in a value, 0 if there is none.
FindSince(v, i) ==
    IF i + 2 > Len(v) THEN 0
    ELSE IF v[i] = " " /\ v[i + 1] = "since" /\ v[i + 2] = " " THEN i
    ELSE FindSince(v, i + 1)

RECURSIVE IndexOf(_, _, _)
\* The first index >= i of the atom a in v, 0 if there is none.
IndexOf(v, a, i) ==
    IF i > Len(v) THEN 0 ELSE IF v[i] = a THEN i ELSE IndexOf(v, a, i + 1)

\* state, since and uptime from the stripped Active line.
active_details(ln) ==
    LET keys == LineKeywords(ln)
        st == IF "running" \in keys THEN S_RUNNING
              ELSE IF "inactive" \in keys \/ "dead" \in keys THEN S_STOPPED
              ELSE IF "failed" \in keys THEN S_FAILED
              ELSE S_UNKNOWN
        v == RStrip(ln.val)
        at == FindSince(v, 1)
        tail == IF at = 0 THEN <<>> ELSE Strip(Drop(v, at + 3))
        semi == IndexOf(tail, ";", 1)
    IN  [state |-> st,
         since |-> IF semi = 0 THEN <<>> ELSE Strip(SubSeq(tail, 1, semi - 1)),
         uptime |-> IF semi = 0 THEN <<>> ELSE Strip(Drop(tail, semi + 1))]

RECURSIVE memory_loop(_, _)
\* The Memory loop: every matching line assigns, so the last one stays.
memory_loop(lines, acc) ==
    IF lines = <<>> THEN acc
    ELSE memory_loop(Tail(lines),
            IF Head(lines).label = "Memory" /\ Head(lines).gap = 0
            THEN Strip(Head(lines).val) ELSE acc)

\* The atoms that match :(\d{2,5})\b , with the digits they capture.
PortAtoms == {":8080", ":443", ":22"}
PortDigits(a) == SubSeq(a, 2, Len(a))

\* "LISTEN" in ln and ":" in ln
IsListenLine(ln) ==
    /\ \E i \in 1..Len(ln.val) : ln.val[i] = "LISTEN"
    /\ ln.label # "" \/ \E i \in 1..Len(ln.val) : ln.val[i] \in PortAtoms \cup {":"}

RECURSIVE last_port(_, _)
\* m[-1] of re.findall over one line, acc when nothing matches.
last_port(v, acc) ==
    IF v = <<>> THEN acc
    ELSE last_port(Tail(v), IF Head(v) \in PortAtoms THEN <<PortDigits(Head(v))>> ELSE acc)

RECURSIVE port_loop(_, _)
port_loop(lines, acc) ==
    IF lines = <<>> THEN acc
    ELSE port_loop(Tail(lines),
            IF IsListenLine(Head(lines)) THEN last_port(Head(lines).val, acc) ELSE acc)

\* The dict info: the header keys and State, Since, Uptime, Memory, Port; a
\* key that is not set holds <<>>.
parse_status_details_systemctl(output) ==
    LET hdr == parse_header_details(output)
        lines == rstrip_lines(strip_ansi_lines(output))
        at == FirstIndex(lines, "Active", 1)
        d == IF at = 0 THEN [state |-> S_UNKNOWN, since |-> <<>>, uptime |-> <<>>]
             ELSE active_details(lines[at])
    IN  [k \in DOMAIN hdr \cup {"State", "Since", "Uptime", "Memory", "Port"} |->
            IF k \in DOMAIN hdr THEN hdr[k]
            ELSE IF k = "State" THEN normalize_state(d.state)
            ELSE IF k = "Since" THEN d.since
            ELSE IF k = "Uptime" THEN d.uptime
            ELSE IF k = "Memory" THEN memory_loop(lines, <<>>)
            ELSE port_loop(lines, <<>>)]

-----------------------------------------------------------------------------
(* state_badge, to_raw_response *)

state_badge(st) ==
    LET n == normalize_state(st)
    IN  IF n = S_RUNNING THEN "green"
        ELSE IF n \in {S_STOPPED, S_FAILED} THEN "red"
        ELSE IF n \in {<<"D","E","G","R","A","D","E","D">>, <<"W","A","R","N","I","N","G">>}
        THEN "yellow"
        ELSE "white"

\* The word a state string spells, for display.
RECURSIVE Spell(_)
Spell(w) == IF w = <<>> THEN "" ELSE Head(w) \o Spell(Tail(w))

\* cleaned: stripped of control sequences and whitespace, "(no output)" when
\* nothing is left, then cut to 3900 characters.
raw_cleaned(t) ==
    LET stripped == FlattenText(StripText(strip_ansi_lines(t)))
    IN  Truncate(IF stripped = <<>> THEN <<"(no output)">> ELSE stripped, RAW_LIMIT)

\* The atom that stands for the three backquotes of a code fence.
FENCE == "<fence>"

Fence(s) == <<FENCE>> \o s \o <<FENCE>>

\* summary is <<>> for None and <<info>> for a dict; a dict from
\* parse_status_details_systemctl always holds State and so is never empty.
to_raw_response(t, summary) ==
    IF summary = <<>> THEN [text |-> Fence(raw_cleaned(t))]
    ELSE LET info == summary[1]
             st == normalize_state(Get(info, "State", S_UNKNOWN))
         IN  [text |-> <<state_badge(st), " *">> \o Get(info, "Client", S_Unknown)
                       \o <<"*  |  *">> \o Get(info, "Host", S_Unknown)
                       \o <<"* (">> \o Get(info, "Env", S_Unknown)
                       \o <<")  |  *">> \o Get(info, "App", S_Unknown)
                       \o <<"*\n*Service:* '">> \o Get(info, "Service", S_Unknown)
                       \o <<"'  -  *Status:* *", Spell(st), "*", "\n">>
                       \o Fence(raw_cleaned(t))]

-----------------------------------------------------------------------------
(* split_host_runs *)

\* ^\s*=+\s*$ : a rule of equals signs
IsRuleLine(ln) == ln.label = "" /\ Strip(ln.val) = <<"=====">>

\* Running on host: <name>
IsRunningOnHost(ln) == ln.label = "Running on host" /\ ln.gap = 0

\* The delimiter block starts at line i: rule, Running on host, rule.
DelimAt(t, i) ==
    i + 2 <= Len(t) /\ IsRuleLine(t[i]) /\ IsRunningOnHost(t[i + 1]) /\ IsRuleLine(t[i + 2])

RECURSIVE split_on_delims(_, _, _)
\* re.split: the parts of t between delimiter blocks, cur the part being read.
split_on_delims(t, i, cur) ==
    IF i > Len(t) THEN <<cur>>
    ELSE IF DelimAt(t, i) THEN <<cur>> \o split_on_delims(t, i + 3, <<>>)
    ELSE split_on_delims(t, i + 1, Append(cur, t[i]))

NotEmpty(x) == x # <<>>

split_host_runs(output) ==
    LET t == strip_ansi_lines(output)
        parts0 == split_on_delims(t, 1, <<>>)
        chunks == SelectSeq([i \in 1..Len(parts0) |-> StripText(parts0[i])], NotEmpty)
    IN  IF ~\E i \in 1..Len(t) : IsRunningOnHost(t[i]) THEN <<t>>
        ELSE IF chunks = <<>> THEN <<t>> ELSE chunks

-----------------------------------------------------------------------------
(* Layout blocks: a block is its type and its text *)

Block(type, txt) == [type |-> type, text |-> txt]
Divider == Block("divider", <<>>)

is_active_icon(v) ==
    IF v = <<"active">> THEN "green"
    ELSE IF v \in {<<"inactive">>, <<"failed">>, <<"dead">>} THEN "red"
    ELSE IF v \in {<<"activating">>, <<"deactivating">>, <<"reloading">>} THEN "yellow"
    ELSE "white"

health_icon_from_is_active(state_val, listen_val) ==
    IF state_val = <<"active">> /\ listen_val = <<"listening">> THEN "green"
    ELSE IF state_val = <<"active">> THEN "yellow"
    ELSE IF state_val \in {<<"failed">>, <<"inactive">>, <<"dead">>} THEN "red"
    ELSE IF state_val \in {<<"activating">>, <<"deactivating">>, <<"reloading">>} THEN "yellow"
    ELSE "white"

\* sec.get(key) or "Unknown"
OrUnknown(v) == IF v = <<>> THEN S_Unknown ELSE v

\* The line of counts per icon: green, yellow, red, and the rest as gray.
summary_line(icons) ==
    LET n(c) == Cardinality({i \in 1..Len(icons) : icons[i] = c})
    IN  <<"\n", "green ", ToString(n("green")), " yellow ", ToString(n("yellow")),
          " red ", ToString(n("red")), " gray ", ToString(n("white"))>>

RECURSIVE ComponentTable(_)
ComponentTable(rows) ==
    IF rows = <<>> THEN <<>>
    ELSE <<"\n", is_active_icon(Head(rows).State), "  ">> \o Head(rows).Name
         \o <<"  ">> \o Head(rows).Unit \o ComponentTable(Tail(rows))

RECURSIVE build_component_status_blocks_from(_, _)
build_component_status_blocks_from(sections, first) ==
    IF sections = <<>> THEN <<>>
    ELSE LET sec == Head(sections)
         IN  (IF first THEN <<>> ELSE <<Divider>>)
             \o << Block("header", sec.App \o <<" - ">> \o sec.Host \o <<" (">>
                                    \o sec.Env \o <<")">>),
                    Block("section", <<"*Client:* ">> \o sec.Client
                                     \o <<"  *Units:* ", ToString(Len(sec.rows))>>
                                     \o summary_line([i \in 1..Len(sec.rows) |->
                                            is_active_icon(sec.rows[i].State)])),
                    Block("section", Fence(<<"STATE  COMPONENT  UNIT">>
                                           \o ComponentTable(SubSeq(sec.rows, 1,
                                                 IF Len(sec.rows) < 120 THEN Len(sec.rows) ELSE 120)))) >>
             \o build_component_status_blocks_from(Tail(sections), FALSE)

build_component_status_blocks(sections) == build_component_status_blocks_from(sections, TRUE)

RECURSIVE MultiTable(_)
MultiTable(apps) ==
    IF apps = <<>> THEN <<>>
    ELSE <<"\n", health_icon_from_is_active(Head(apps).State, Head(apps).Listen), "  ">>
         \o Head(apps).App \o <<"  ">> \o Head(apps).Port \o <<"  ">>
         \o Head(apps).Listen \o <<"  ">> \o Head(apps).Service
         \o MultiTable(Tail(apps))

RECURSIVE build_status_multi_blocks_from(_, _)
build_status_multi_blocks_from(sections, first) ==
    IF sections = <<>> THEN <<>>
    ELSE LET sec == Head(sections)
         IN  (IF first THEN <<>> ELSE <<Divider>>)
             \o << Block("header", <<"Environment Status - ">> \o OrUnknown(sec.Host)
                                    \o <<" (">> \o OrUnknown(sec.Env) \o <<")">>),
                    Block("section", <<"*Client:* ">> \o OrUnknown(sec.Client)
                                     \o <<"  *Services:* ", ToString(Len(sec.apps))>>
                                     \o summary_line([i \in 1..Len(sec.apps) |->
                                            health_icon_from_is_active(sec.apps[i].State,
                                                                       sec.apps[i].Listen)])),
                    Block("section", Fence(<<"HEALTH  APP  PORT  LISTEN  SERVICE">>
                                           \o MultiTable(SubSeq(sec.apps, 1,
                                                 IF Len(sec.apps) < 118 THEN Len(sec.apps) ELSE 118)))) >>
             \o build_status_multi_blocks_from(Tail(sections), FALSE)

build_status_multi_blocks(sections) == build_status_multi_blocks_from(sections, TRUE)

\* value if value else the dash
OrDash(v) == IF v = <<>> THEN <<"-">> ELSE v

build_blocks_like_image(summary) ==
    LET st == normalize_state(Get(summary, "State", S_UNKNOWN))
        icon == state_badge(st)
    IN  << Block("header", <<"Status Result">>),
           Block("section", <<icon, " *">> \o Get(summary, "App", S_Unknown) \o <<"* on *">>
                            \o Get(summary, "Host", S_Unknown)
                            \o <<"*\n*Client:* ">> \o Get(summary, "Client", S_Unknown)
                            \o <<"\n*Environment:* ">> \o Get(summary, "Env", S_Unknown)),
           Divider,
           Block("fields", <<"Service: ">> \o Get(summary, "Service", S_Unknown)
                           \o <<" State: ", icon, Spell(st), " Uptime: ">>
                           \o OrDash(summary["Uptime"]) \o <<" Since: ">>
                           \o OrDash(summary["Since"]) \o <<" Memory: ">>
                           \o OrDash(summary["Memory"]) \o <<" Port: ">>
                           \o OrDash(summary["Port"])) >>

-----------------------------------------------------------------------------
(* parse_url_result, build_url_dashboard *)

RECURSIVE url_loop(_, _)
\* The loop over the lines: every matching line assigns.
url_loop(lines, acc) ==
    IF lines = <<>> THEN acc
    ELSE LET ln == Head(lines)
         IN  url_loop(Tail(lines),
                IF RxLabel(ln, "URL") THEN [acc EXCEPT !.url = Group1(ln)]
                ELSE IF RxLabel(ln, "HTTP") THEN [acc EXCEPT !.http = Group1(ln)]
                ELSE IF RxLabel(ln, "Time") THEN [acc EXCEPT !.t = Group1(ln)]
                ELSE acc)

\* t[:-1] if t.endswith("s") else t
DropUnit(t) ==
    IF t = <<>> THEN t
    ELSE LET a == t[Len(t)]
             n == Len(a)
         IN  IF n >= 1 /\ SubSeq(a, n, n) = "s"
             THEN SubSeq(t, 1, Len(t) - 1) \o (IF n = 1 THEN <<>> ELSE <<SubSeq(a, 1, n - 1)>>)
             ELSE t

parse_url_result(output) ==
    LET r == url_loop(strip_ansi_lines(output), [url |-> <<>>, http |-> <<>>, t |-> <<>>])
    IN  [r EXCEPT !.t = DropUnit(@)]

\* int(http_code), -1 when int() raises
HttpInt(v) ==
    IF v = <<"200">> THEN 200 ELSE IF v = <<"301">> THEN 301
    ELSE IF v = <<"404">> THEN 404 ELSE IF v = <<"500">> THEN 500 ELSE -1

build_url_dashboard(hdr, raw_output) ==
    LET r == parse_url_result(raw_output)
        code == HttpInt(r.http)
        icon == IF code = -1
                THEN (IF r.http # <<>> /\ r.http # <<"ERROR">> THEN "red" ELSE "white")
                ELSE IF 200 <= code /\ code < 300 THEN "green"
                ELSE IF 300 <= code /\ code < 400 THEN "yellow"
                ELSE "red"
    IN  << Block("header", <<"URL Health Check">>),
           Block("section", <<icon, " *">> \o Get(hdr, "App", S_Unknown) \o <<"* on *">>
                            \o Get(hdr, "Host", S_Unknown)
                            \o <<"*\n*Client:* ">> \o Get(hdr, "Client", S_Unknown)
                            \o <<"\n*Environment:* ">> \o Get(hdr, "Env", S_Unknown)),
           Divider,
           Block("fields", <<"*HTTP:*\n", icon>> \o OrDash(r.http) \o <<"*Time:*\n">>
                           \o (IF r.t = <<>> THEN <<"-">> ELSE r.t \o <<"s">>)) >>
        \o (IF r.url # <<>> THEN <<Block("section", <<"*URL:*\n">> \o r.url)>> ELSE <<>>)

-----------------------------------------------------------------------------
(* shlex.split: a command line is a sequence of atoms, each a word, a      *)
(* blank or a quote character                                              *)

DQ == "\""
SQ == "'"
QuoteChars == {DQ, SQ}

RECURSIVE shlex_scan(_, _, _, _)
\* The scan from the atoms s on: tok is <<>> outside a token and <<t>> inside
\* the token t, quote is "" or the quote character that is open.  At the end
\* of the line an open quote raises ValueError (No closing quotation).
shlex_scan(s, tok, quote, acc) ==
    IF s = <<>>
    THEN IF quote # "" THEN [ok |-> FALSE, parts |-> <<>>]
         ELSE [ok |-> TRUE, parts |-> acc \o tok]
    ELSE LET a == Head(s)
             open == IF tok = <<>> THEN "" ELSE tok[1]
         IN  IF quote # ""
             THEN IF a = quote THEN shlex_scan(Tail(s), tok, "", acc)
                  ELSE shlex_scan(Tail(s), <<open \o a>>, quote, acc)
             ELSE IF a = " " THEN shlex_scan(Tail(s), <<>>, "", acc \o tok)
             ELSE IF a \in QuoteChars THEN shlex_scan(Tail(s), <<open>>, a, acc)
             ELSE shlex_scan(Tail(s), <<open \o a>>, "", acc)

shlex_split(s) == shlex_scan(s, <<>>, "", <<>>)

-----------------------------------------------------------------------------
(* run_ctl *)

ALLOWED_CMDS == {"info", "status", "logs", "journal", "url", "stop", "start", "restart"}

APP_BRAND == "AppPilot"

build_usage_text == <<"*", APP_BRAND, "* usage:", "\n", "Flags:", "\n">>

\* A payload is a record with the field text and, for a dashboard, the field
\* blocks.
RawPayload(txt) == [text |-> txt]
BlocksPayload(txt, blocks) == [text |-> txt, blocks |-> blocks]

\* x in seq
In(x, seq) == \E i \in 1..Len(seq) : seq[i] = x

\* Lines 661-678 with the test of the allow-list left out.
run_ctl_validate_NoAllowList(line) ==
    LET lex == shlex_split(line)
        f == split_flags(lex.parts)
        none == [core |-> <<>>, ctl_flags |-> <<>>, bot_flags |-> <<>>]
        cmd == f.core[1]
        Return(flags, txt) ==
            [kind |-> "return", parts |-> lex.parts, flags |-> flags,
             payload |-> <<RawPayload(txt)>>]
    IN  IF ~lex.ok
        THEN [kind |-> "raise", parts |-> <<>>, flags |-> none, payload |-> <<>>]
        ELSE IF lex.parts = <<>> THEN Return(none, build_usage_text)
        ELSE IF f.core = <<>> THEN Return(f, build_usage_text)
        ELSE IF cmd \in {"info", "status"} /\ Len(f.core) < 3
        THEN Return(f, <<"ERROR: '", cmd, "' requires <CLIENT> <HOST|ENV> [APP]", "\n", "\n">>
                       \o build_usage_text)
        ELSE IF cmd \notin {"info", "status"} /\ Len(f.core) < 4
        THEN Return(f, <<"ERROR: '", cmd, "' requires <CLIENT> <HOST|ENV> <APP>", "\n", "\n">>
                       \o build_usage_text)
        ELSE [kind |-> "run", parts |-> lex.parts, flags |-> f, payload |-> <<>>]

\* Lines 661-678: what run_ctl does before it builds the tool's command.
\* The outcome is a raise, a return of a payload, or the call of the tool.
run_ctl_validate(line) ==
    LET lex == shlex_split(line)
        f == split_flags(lex.parts)
        none == [core |-> <<>>, ctl_flags |-> <<>>, bot_flags |-> <<>>]
        cmd == f.core[1]
        Return(flags, txt) ==
            [kind |-> "return", parts |-> lex.parts, flags |-> flags,
             payload |-> <<RawPayload(txt)>>]
    IN  IF ~lex.ok
        THEN [kind |-> "raise", parts |-> <<>>, flags |-> none, payload |-> <<>>]
        ELSE IF lex.parts = <<>> THEN Return(none, build_usage_text)
        ELSE IF f.core = <<>> THEN Return(f, build_usage_text)
        ELSE IF cmd \notin ALLOWED_CMDS
        THEN Return(f, <<"Subcommand not allowed: '", cmd, "'", "\n", "\n">>
                       \o build_usage_text)
        ELSE IF cmd \in {"info", "status"} /\ Len(f.core) < 3
        THEN Return(f, <<"ERROR: '", cmd, "' requires <CLIENT> <HOST|ENV> [APP]", "\n", "\n">>
                       \o build_usage_text)
        ELSE IF cmd \notin {"info", "status"} /\ Len(f.core) < 4
        THEN Return(f, <<"ERROR: '", cmd, "' requires <CLIENT> <HOST|ENV> <APP>", "\n", "\n">>
                       \o build_usage_text)
        ELSE [kind |-> "run", parts |-> lex.parts, flags |-> f, payload |-> <<>>]

\* "{}" with combined_clean[:3900] inside a code fence
fenced(combined_clean) == RawPayload(Fence(Truncate(FlattenText(combined_clean), RAW_LIMIT)))

\* "App    : <ALL>" in combined_clean
HasAllAppsMarker(t) ==
    \E i \in 1..Len(t) :
        /\ t[i].label = "App" /\ t[i].gap = 4
        /\ Len(t[i].val) >= 2 /\ t[i].val[1] = " " /\ t[i].val[2] = "<ALL>"

RECURSIVE parsed_sections(_)
\* The loop over host_chunks: the chunks that parse to a section.
parsed_sections(chunks) ==
    IF chunks = <<>> THEN <<>>
    ELSE parse_component_status_section(Head(chunks)) \o parsed_sections(Tail(chunks))

\* Lines 712-716, with the raw test left out.
url_payload_NoRawTest(force_raw, exec_mode, combined_clean) ==
    IF ~exec_mode THEN fenced(combined_clean)
    ELSE BlocksPayload(<<"URL">>,
            build_url_dashboard(parse_header_details(combined_clean), combined_clean))

\* Lines 712-716: the url branch.
url_payload(force_raw, exec_mode, combined_clean) ==
    IF force_raw \/ ~exec_mode THEN fenced(combined_clean)
    ELSE BlocksPayload(<<"URL">>,
            build_url_dashboard(parse_header_details(combined_clean), combined_clean))

\* Lines 722-742: the status branch once a dashboard is asked for.
status_dashboard(combined_clean, summary_single) ==
    LET secs == IF HasMarker(combined_clean, "Component")
                   \/ HasMarker(combined_clean, "Main-State")
                THEN parsed_sections(split_host_runs(combined_clean))
                ELSE <<>>
        multi == parse_status_multi_allapps(combined_clean)
        st == summary_single[1]["State"]
    IN  IF secs # <<>>
        THEN BlocksPayload(<<"Status">>, build_component_status_blocks(secs))
        ELSE IF HasAllAppsMarker(combined_clean) /\ HasMarker(combined_clean, "APP")
        THEN IF multi # <<>>
             THEN BlocksPayload(<<"Status">>, build_status_multi_blocks(multi))
             ELSE to_raw_response(combined_clean, summary_single)
        ELSE IF st # <<>> /\ st # S_UNKNOWN
        THEN BlocksPayload(<<"Status">>, build_blocks_like_image(summary_single[1]))
        ELSE fenced(combined_clean)

\* Lines 718-742, with the exec test left out.
status_payload_NoExecTest(force_raw, exec_mode, combined_clean, summary_single) ==
    IF force_raw THEN to_raw_response(combined_clean, summary_single)
    ELSE status_dashboard(combined_clean, summary_single)

\* Lines 718-742: the status branch.
status_payload(force_raw, exec_mode, combined_clean, summary_single) ==
    IF force_raw \/ ~exec_mode THEN to_raw_response(combined_clean, summary_single)
    ELSE status_dashboard(combined_clean, summary_single)

\* Lines 701-744 with the test of the exit code after the branches of the
\* commands.
run_ctl_finish_ExitLast(cmd, ctl, bot, p) ==
    LET exec_mode == In("--exec", ctl)
        force_raw == In("--raw", bot)
        combined_clean == strip_ansi_lines(StripText(p.stdout \o p.stderr))
        summary_single == IF cmd = "status"
                          THEN <<parse_status_details_systemctl(combined_clean)>>
                          ELSE <<>>
    IN  IF p.raised THEN RawPayload(<<"Error running ", APP_BRAND, ": ", p.error>>)
        ELSE IF cmd = "info" THEN fenced(combined_clean)
        ELSE IF cmd = "url" THEN url_payload(force_raw, exec_mode, combined_clean)
        ELSE IF cmd = "status"
        THEN status_payload(force_raw, exec_mode, combined_clean, summary_single)
        ELSE IF p.returncode # 0
        THEN RawPayload(<<"Exit ", ToString(p.returncode), "\n">>
                        \o to_raw_response(combined_clean, summary_single).text)
        ELSE to_raw_response(combined_clean, summary_single)

\* Lines 689-744: from the outcome p of subprocess.run to the payload.
run_ctl_finish(cmd, ctl, bot, p) ==
    LET exec_mode == In("--exec", ctl)
        force_raw == In("--raw", bot)
        combined_clean == strip_ansi_lines(StripText(p.stdout \o p.stderr))
        summary_single == IF cmd = "status"
                          THEN <<parse_status_details_systemctl(combined_clean)>>
                          ELSE <<>>
    IN  IF p.raised THEN RawPayload(<<"Error running ", APP_BRAND, ": ", p.error>>)
        ELSE IF p.returncode # 0
        THEN RawPayload(<<"Exit ", ToString(p.returncode), "\n">>
                        \o to_raw_response(combined_clean, summary_single).text)
        ELSE IF cmd = "info" THEN fenced(combined_clean)
        ELSE IF cmd = "url" THEN url_payload(force_raw, exec_mode, combined_clean)
        ELSE IF cmd = "status"
        THEN status_payload(force_raw, exec_mode, combined_clean, summary_single)
        ELSE to_raw_response(combined_clean, summary_single)

-----------------------------------------------------------------------------
(* Specification of run_ctl: a command line is interpreted, the tool runs  *)
(* at most once and ends in any of its outcomes, a payload is returned     *)

MaxArgs == 3

\* The positional arguments a command line may carry, in order.
Positionals == <<"ACME", "web1", "BEP", "app.log", "more">>

Commands == ALLOWED_CMDS \cup {"deploy"}

\* The flags written before the subcommand, and after the arguments.
FlagHeads == {<<>>, <<"--raw">>}
FlagTails ==
    {<<>>, <<"--exec">>, <<"--raw">>, <<"--exec", "--raw">>, <<"--all", "--exec">>,
     <<"--lines", "5", "--exec">>}

RECURSIVE Join(_)
\* " ".join(tokens)
Join(tokens) ==
    IF tokens = <<>> THEN <<>>
    ELSE IF Len(tokens) = 1 THEN tokens
    ELSE <<Head(tokens), " ">> \o Join(Tail(tokens))

\* Command lines with quotes: a quoted flag, a quoted argument of two words,
\* an empty argument, and quotes that are never closed.
QuotedLines ==
    { Join(<<"status", "ACME", "web1">>) \o <<" ", DQ, "--raw", DQ, " ", "--exec">>,
      Join(<<"status", "ACME">>) \o <<" ", DQ, "web1", " ", "east", DQ, " ", "--exec">>,
      <<DQ, DQ>>,
      <<"status", " ", DQ, "ACME">>,
      Join(<<"logs", "ACME", "web1", "BEP", "app.log", "--filter">>) \o <<" ", "don", SQ, "t">>,
      <<" ">> }

CommandLines ==
    { Join(h \o <<c>> \o SubSeq(Positionals, 1, n) \o t) :
        h \in FlagHeads, c \in Commands, n \in 0..MaxArgs, t \in FlagTails }
    \cup { Join(h \o t) : h \in FlagHeads, t \in FlagTails \ {<<"--lines", "5", "--exec">>} }
    \cup QuotedLines

\* Lines of tool output.
ClientLine == Line(0, "Client", 0, <<" ", "ACME">>)
EnvLine == Line(0, "Env", 3, <<" ", "PROD">>)
AppLine == Line(0, "App", 0, <<" ", "BEP">>)
AllAppsLine == Line(0, "App", 4, <<" ", "<ALL>">>)
ActiveRunning ==
    Line(3, "Active", 0, <<" ", ESC, "[", "1", "m", "active", " ", "(running)", ESC, "[", "0", "m",
                           " ", "since", " ", "Mon 10:00", ";", " ", "3h ago">>)
ActiveDead == Line(3, "Active", 0, <<" ", "inactive", " ", "(dead)", " ", "since", " ", "Mon 10:00">>)
ActiveOther == Line(3, "Active", 0, <<" ", "activating">>)
MemoryLine == Line(3, "Memory", 0, <<" ", "120.5M">>)
ListenLine == Line(0, "", 0, <<"LISTEN", " ", "0", " ", "*", ":8080">>)
RuleLine == Line(0, "", 0, <<"=====">>)
RunningOnLine(h) == Line(0, "Running on host", 0, <<" ", h>>)
LogLine == Line(0, "", 0, <<"started", " ", "worker", " ", "7">>)

OutSingle(active) ==
    <<ClientLine, HostLine, EnvLine, AppLine, ServiceLine, active, MemoryLine, ListenLine>>

OutComponent ==
    <<ClientLine, HostLine, ServiceLine, MainStateLine>> \o RenderComps(<<
        [named |-> TRUE, body |-> <<"State", "Unit">>],
        [named |-> TRUE, body |-> <<"Unit", "State">>] >>, 1)

OutMulti ==
    <<AllAppsLine, ClientLine, HostLine, EnvLine>>
    \o RenderApps(<<<<"Service", "Port", "State", "Listen">>, <<"State">>>>, 1, 1)

\* What the tool may print on stdout.
ToolStdout ==
    { <<>>,
      <<Line(0, "", 0, <<" ">>)>>,
      <<LogLine, Line(2, "", 0, <<ESC, "[", "3", "1", "m", "ERROR:", " ", "boom", ESC, "[", "0", "m">>)>>,
      OutSingle(ActiveRunning), OutSingle(ActiveDead), OutSingle(ActiveOther),
      <<ClientLine, HostLine, LogLine>>,
      OutComponent,
      <<RuleLine, RunningOnLine("host1"), RuleLine>> \o OutComponent
          \o <<RuleLine, RunningOnLine("host2"), RuleLine, LogLine>>,
      <<CompLineOf(FALSE, 1), ActiveRunning>>,
      <<CompLineOf(FALSE, 1)>>,
      OutMulti,
      <<AllAppsLine, Line(0, "APP", 0, <<>>)>>,
      <<AllAppsLine, HostLine, AppLineOf(1, 1), CompLineOf(TRUE, 1)>>,
      <<ClientLine, HostLine, Line(0, "URL", 0, <<" ", "https://acme/health">>),
        Line(0, "HTTP", 0, <<" ", "200">>), Line(0, "Time", 0, <<" ", "0.12s">>)>>,
      <<Line(0, "HTTP", 0, <<" ", "ERROR">>)>> }

ToolStderr == {<<>>, <<Line(0, "", 0, <<"ssh:", " ", "connection", " ", "refused">>)>>}

ExitCodes == {0, 1, 137}

\* What subprocess.run may do: raise (a timeout, a missing binary), or
\* complete with an exit code and the two streams.
ToolOutcomes ==
    { [raised |-> TRUE, error |-> e, returncode |-> 0, stdout |-> <<>>, stderr |-> <<>>] :
        e \in {"timed out", "No such file or directory"} }
    \cup
    { [raised |-> FALSE, error |-> "", returncode |-> rc, stdout |-> out, stderr |-> err] :
        rc \in ExitCodes, out \in ToolStdout, err \in ToolStderr }

InitRun ==
    /\ pc = "ready"
    /\ user_text \in CommandLines
    /\ proc = <<>> /\ tool_runs = 0 /\ payload = <<>>
    /\ parts = <<>> /\ core = <<>> /\ ctl_flags = <<>> /\ bot_flags = <<>>
    /\ state = Unused /\ text = Unused /\ result = Unused

\* Lines 661-699: run_ctl up to the call of subprocess.run.
RunCtlStart ==
    /\ pc = "ready"
    /\ LET v == run_ctl_validate(user_text)
       IN  /\ parts' = v.parts
           /\ core' = v.flags.core
           /\ ctl_flags' = v.flags.ctl_flags
           /\ bot_flags' = v.flags.bot_flags
           /\ payload' = v.payload
           /\ pc' = IF v.kind = "raise" THEN "raised"
                    ELSE IF v.kind = "return" THEN "done" ELSE "running"
           /\ tool_runs' = IF v.kind = "run" THEN tool_runs + 1 ELSE tool_runs
    /\ UNCHANGED <<user_text, proc, state, text, result>>

\* Lines 689-744: subprocess.run ends and run_ctl returns.
ToolCompletes ==
    /\ pc = "running"
    /\ \E p \in ToolOutcomes :
        /\ proc' = <<p>>
        /\ payload' = <<run_ctl_finish(core[1], ctl_flags, bot_flags, p)>>
    /\ pc' = "done"
    /\ UNCHANGED <<user_text, parts, core, ctl_flags, bot_flags, tool_runs, state, text, result>>

NextRun == RunCtlStart \/ ToolCompletes

SpecRun == InitRun /\ [][NextRun]_vars

\* run_ctl has returned a payload.
Returned == pc = "done" /\ payload # <<>>

\* The returned payload is RAW: it has no blocks.
IsRaw == "blocks" \notin DOMAIN payload[1]

\* A text with at least one character.
NonEmptyText(txt) == \E i \in 1..Len(txt) : txt[i] # ""

\* The tool ran and completed (it did not raise) with exit code rc.
ToolExited(rc) ==
    tool_runs = 1 /\ proc # <<>> /\ ~proc[1].raised /\ proc[1].returncode = rc

\* The tool's output carries the markers of a component report, or those of
\* a multi-app report.
OutputHasMarkers ==
    /\ proc # <<>>
    /\ \/ HasMarker(proc[1].stdout, "Component") /\ HasMarker(proc[1].stdout, "Main-State")
       \/ HasAllAppsMarker(proc[1].stdout) /\ HasMarker(proc[1].stdout, "APP")

\* C7: whenever the command line contains the force-raw flag --raw, the
\* payload run_ctl returns has no blocks, whatever the subcommand, the exit
\* code and the tool's output.
C7_RawFlagForcesRaw == (pc = "done" /\ In("--raw", parts)) => (Returned /\ IsRaw)

\* A status run with --exec and --raw that exits 0 on a report with markers.
C7_Witness ==
    /\ Returned /\ In("--raw", parts) /\ In("--exec", parts)
    /\ core # <<>> /\ core[1] = "status"
    /\ ToolExited(0) /\ OutputHasMarkers
    /\ IsRaw

\* C8: whenever the tool completes with a non-zero exit code N, the payload
\* run_ctl returns has no blocks and its text begins with Exit N, whatever
\* the subcommand, the flags and the tool's output.
C8_NonZeroExitIsRaw ==
    (pc = "done" /\ proc # <<>> /\ ~proc[1].raised /\ proc[1].returncode # 0)
    => /\ Returned /\ IsRaw
       /\ Len(payload[1].text) >= 2
       /\ SubSeq(payload[1].text, 1, 2) = <<"Exit ", ToString(proc[1].returncode)>>

\* A status run with --exec and no --raw, killed (exit 137) after it printed
\* a report with markers.
C8_Witness ==
    /\ Returned /\ In("--exec", parts) /\ ~In("--raw", parts)
    /\ core # <<>> /\ core[1] = "status"
    /\ ToolExited(137) /\ OutputHasMarkers
    /\ IsRaw /\ SubSeq(payload[1].text, 1, 2) = <<"Exit ", "137">>

\* The command line is empty or blank, or holds lifted flags only.
OnlyLiftedFlags ==
    \A i \in 1..Len(user_text) : user_text[i] \in {" "} \cup BOT_FLAGS \cup CTL_FLAGS

\* C9: run_ctl returns a payload with a non-empty text for every command
\* line and every outcome of the tool; for an empty command line and for one
\* of lifted flags only the payload is the usage text, without blocks, and
\* the tool is not run.
C9_AlwaysPayloadWithText ==
    (pc \in {"done", "raised"})
    => /\ payload # <<>>
       /\ NonEmptyText(payload[1].text)
       /\ OnlyLiftedFlags => (payload[1] = RawPayload(build_usage_text) /\ tool_runs = 0)

\* C10: whenever the command line does not contain the execute flag --exec,
\* the payload run_ctl returns has no blocks, whatever the subcommand and
\* the tool's output.
C10_NoExecIsRaw == (pc = "done" /\ ~In("--exec", parts)) => (Returned /\ IsRaw)

\* A status run without --exec and without --raw that exits 0 on a report
\* with markers.
C10_Witness ==
    /\ Returned /\ ~In("--exec", parts) /\ ~In("--raw", parts)
    /\ core # <<>> /\ core[1] = "status"
    /\ ToolExited(0) /\ OutputHasMarkers
    /\ IsRaw

-----------------------------------------------------------------------------
(* The order of the layouts of a status report *)

\* The tool's output as run_ctl reads it: both streams, trimmed, without
\* control sequences.
CombinedClean == strip_ansi_lines(StripText(proc[1].stdout \o proc[1].stderr))

\* The layout of the returned payload, read off its first block.
PayloadLayout ==
    IF IsRaw THEN "raw"
    ELSE LET head == payload[1].blocks[1].text
         IN  IF head = <<"Status Result">> THEN "single"
             ELSE IF head = <<"URL Health Check">> THEN "url"
             ELSE IF head[1] = "Environment Status - " THEN "multi"
             ELSE "component"

\* A status run with --exec and without --raw that exited 0.
StatusDashboardRun ==
    /\ Returned /\ ToolExited(0)
    /\ core # <<>> /\ core[1] = "status"
    /\ In("--exec", parts) /\ ~In("--raw", parts)

\* C11: in a status run with --exec, without --raw and with exit code 0 the
\* layout is chosen in the order component, multi-app, single: after a
\* component marker the component layout is produced and the multi-app and
\* single-unit checks are not consulted; else after the all-apps marker the
\* multi-section layout is produced; else a parsed state other than UNKNOWN
\* gives the single-unit layout; else the payload is RAW.  A parser that
\* finds no section may fall back to RAW.
C11_LayoutOrder ==
    StatusDashboardRun =>
        IF HasMarker(CombinedClean, "Component") \/ HasMarker(CombinedClean, "Main-State")
        THEN PayloadLayout \in {"component", "raw"}
        ELSE IF HasAllAppsMarker(CombinedClean)
        THEN PayloadLayout \in {"multi", "raw"}
        ELSE IF parse_status_details_systemctl(CombinedClean)["State"] # S_UNKNOWN
        THEN PayloadLayout = "single"
        ELSE PayloadLayout = "raw"

-----------------------------------------------------------------------------
(* Validation of the command line *)

\* A token written as a flag.
IsFlagToken(t) == Len(t) >= 2 /\ SubSeq(t, 1, 2) = "--"

\* The number of arguments after the subcommand that are not flags.
PositionalCount == Cardinality({i \in 2..Len(core) : ~IsFlagToken(core[i])})

\* The least number of positional arguments of a subcommand.
MinPositionals(cmd) == IF cmd \in {"info", "status"} THEN 2 ELSE 3

\* C12: a first core token outside the allow-list gives the unsupported-
\* command message carrying that token, before any count of arguments;
\* otherwise fewer positional (non-flag) arguments after the subcommand than
\* its minimum (2 for info and status, 3 for the others) gives the missing-
\* arguments message naming the subcommand; any other command line passes
\* validation and the tool is run.
C12_Validation ==
    (pc \in {"running", "done"} /\ core # <<>>) =>
        LET cmd == core[1]
            refused == tool_runs = 0 /\ Returned /\ IsRaw
        IN  IF cmd \notin {"info", "status", "logs", "journal", "url", "restart", "stop", "start"}
            THEN /\ refused
                 /\ SubSeq(payload[1].text, 1, 2) = <<"Subcommand not allowed: '", cmd>>
            ELSE IF PositionalCount < MinPositionals(cmd)
            THEN /\ refused
                 /\ SubSeq(payload[1].text, 1, 2) = <<"ERROR: '", cmd>>
            ELSE tool_runs = 1

-----------------------------------------------------------------------------
(* The tool is run at most once *)

\* C13: in every invocation of run_ctl the tool is invoked at most once, and
\* only for a non-empty command line that passed the subcommand and the
\* argument-count validation; whatever the outcome of that invocation (exit
\* 0, non-zero exit, timeout or another exception), run_ctl then returns a
\* payload and does not invoke the tool again.
C13_ToolRunsOnce ==
    /\ [](/\ tool_runs <= 1
          /\ tool_runs = 1 =>
                /\ parts # <<>> /\ core # <<>>
                /\ core[1] \in {"info", "status", "logs", "journal", "url",
                                "restart", "stop", "start"}
                /\ Len(core) - 1 >= MinPositionals(core[1])
          /\ (pc = "done") => payload # <<>>)
    /\ [][/\ tool_runs' # tool_runs => (pc = "ready" /\ tool_runs = 0 /\ pc' = "running")
          /\ pc = "running" => (pc' = "done" /\ payload' # <<>> /\ tool_runs' = tool_runs)
          /\ pc = "done" => pc' = "done"]_vars

\* The tool was run once, timed out, and run_ctl returned the error text.
C13_Witness ==
    /\ Returned /\ tool_runs = 1 /\ proc # <<>> /\ proc[1].raised
    /\ payload[1].text[1] = "Error running "

-----------------------------------------------------------------------------
(* Specification of parse_status_details_systemctl: reports with up to     *)
(* MaxActive Active lines and up to MaxMemory Memory lines                 *)

MaxActive == 2
MaxMemory == 2

\* The values an Active line may carry.
ActiveValues ==
    { <<" ", "active", " ", "(running)", " ", "since", " ", "Mon 10:00", ";", " ", "3h ago">>,
      <<" ", "inactive", " ", "(dead)", " ", "since", " ", "Tue 11:00", " ">>,
      <<" ", "activating">>,
      <<" ", "failed", " ", "since", " ", "Wed 12:00", " ", ";", " ", "5min", ";", " ", "ago">>,
      <<" ", ESC, "[", "1", "m", "active", " ", "(running)", ESC, "[", "0", "m", " ", "since", " ",
        "Thu 13:00">> }

\* The values a Memory line may carry.
MemoryValues == { <<" ", "120.5M">>, <<" ", "64.0M", " ">>, <<" ">> }

ActiveLineOf(v) == Line(3, "Active", 0, v)
MemoryLineOf(v) == Line(3, "Memory", 0, v)

SystemctlReports ==
    { pre \o [i \in 1..Len(as) |-> ActiveLineOf(as[i])]
          \o [i \in 1..Len(ms) |-> MemoryLineOf(ms[i])] \o post :
        pre \in {<<>>, <<ClientLine, ServiceLine>>},
        as \in SeqsUpTo(ActiveValues, MaxActive),
        ms \in SeqsUpTo(MemoryValues, MaxMemory),
        post \in {<<>>, <<ListenLine>>} }

InitSystemctl ==
    /\ pc = "ready"
    /\ NoRun
    /\ text \in SystemctlReports
    /\ result = Unused
    /\ parts = Unused /\ core = Unused /\ ctl_flags = Unused /\ bot_flags = Unused
    /\ state = Unused

ParseStatusDetails ==
    /\ pc = "ready"
    /\ result' = parse_status_details_systemctl(text)
    /\ pc' = "done"
    /\ UNCHANGED <<parts, core, ctl_flags, bot_flags, state, text, runVars>>

NextSystemctl == ParseStatusDetails

SpecSystemctl == InitSystemctl /\ [][NextSystemctl]_vars

\* The lines of the text that begin, once trimmed, with the label and its
\* colon.
LabelledLines(label) == {i \in 1..Len(text) : text[i].label = label /\ text[i].gap = 0}

\* The first Active line, trimmed and without control sequences; <<>> when
\* there is none.
FirstActive ==
    IF LabelledLines("Active") = {} THEN <<>>
    ELSE Strip(strip_ansi(text[Min(LabelledLines("Active"))].val))

\* The places of " since " in the first Active line.
SincePlaces ==
    {i \in 1..(Len(FirstActive) - 2) :
        FirstActive[i] = " " /\ FirstActive[i + 1] = "since" /\ FirstActive[i + 2] = " "}

\* The text after the first " since ".
AfterSince == Strip(Drop(FirstActive, Min(SincePlaces) + 3))

SemiPlaces == {j \in 1..Len(AfterSince) : AfterSince[j] = ";"}

\* C14: when the first Active line contains " since ", the text after it is
\* split on the first ";" into Since and Uptime; without a ";" the whole
\* remainder is Since and Uptime stays unset; without " since " neither
\* field is set.
C14_SinceUptime ==
    (pc = "done") =>
        IF SincePlaces = {} THEN result["Since"] = <<>> /\ result["Uptime"] = <<>>
        ELSE IF SemiPlaces = {}
        THEN result["Since"] = AfterSince /\ result["Uptime"] = <<>>
        ELSE /\ result["Since"] = Strip(SubSeq(AfterSince, 1, Min(SemiPlaces) - 1))
             /\ result["Uptime"] = Strip(Drop(AfterSince, Min(SemiPlaces) + 1))

\* C18: Memory is the trimmed remainder after the colon of the first line
\* that begins with Memory:, and later Memory lines do not change it.
C18_FirstMemory ==
    (pc = "done") =>
        result["Memory"] =
            IF LabelledLines("Memory") = {} THEN <<>>
            ELSE Strip(text[Min(LabelledLines("Memory"))].val)

-----------------------------------------------------------------------------
(* Specification of parse_header_details: texts of up to MaxHeaderLines    *)
(* lines, labels repeated and in any order                                 *)

MaxHeaderLines == 3

HeaderLinePool ==
    { Line(0, "Client", 0, <<" ", "ACME">>),
      Line(2, "Client", 1, <<" ", "Globex", " ">>),
      Line(0, "Host", 0, <<" ", "host1">>),
      Line(0, "Host", 2, <<"host2">>),
      Line(0, "Env", 0, <<" ", ESC, "[", "1", "m", "PROD", ESC, "[", "0", "m">>),
      Line(0, "App", 0, <<" ">>),
      Line(0, "App", 4, <<" ", "<ALL>">>),
      Line(0, "Service", 0, <<" ", "dw.service">>),
      Line(0, "RunAs", 0, <<" ", "tomcat">>),
      Line(0, "Run As", 0, <<" ", "root">>),
      Line(0, "", 0, <<"started", " ", "worker">>) }

InitHeader ==
    /\ pc = "ready"
    /\ NoRun
    /\ text \in SeqsUpTo(HeaderLinePool, MaxHeaderLines)
    /\ result = Unused
    /\ parts = Unused /\ core = Unused /\ ctl_flags = Unused /\ bot_flags = Unused
    /\ state = Unused

ParseHeader ==
    /\ pc = "ready"
    /\ result' = parse_header_details(text)
    /\ pc' = "done"
    /\ UNCHANGED <<parts, core, ctl_flags, bot_flags, state, text, runVars>>

NextHeader == ParseHeader

SpecHeader == InitHeader /\ [][NextHeader]_vars

\* The value of line i as it reads once control sequences and whitespace at
\* both ends are gone.
CleanValue(i) == Strip(strip_ansi(text[i].val))

\* The lines that match the label: the label, a colon, and a value that is
\* not blank.
MatchingLines(label) == {i \in 1..Len(text) : text[i].label = label /\ CleanValue(i) # <<>>}

\* C16: for each label among Client, Host, Env, App, Service and RunAs the
\* extracted value is that of the first line matching the label; later lines
\* with the label do not change it, and a label that was found does not stop
\* the search for the others.
C16_FirstHeaderWins ==
    (pc = "done") =>
        \A k \in {"Client", "Host", "Env", "App", "Service", "RunAs"} :
            result[k] = IF MatchingLines(k) = {} THEN <<>>
                        ELSE CleanValue(Min(MatchingLines(k)))

\* Two Client lines with different values, and a Host line after them.
C16_Witness ==
    /\ pc = "done"
    /\ Cardinality({CleanValue(i) : i \in MatchingLines("Client")}) = 2
    /\ MatchingLines("Host") # {}
    /\ Min(MatchingLines("Host")) > Max(MatchingLines("Client"))
    /\ result["Client"] = CleanValue(Min(MatchingLines("Client")))
    /\ result["Host"] # <<>>

-----------------------------------------------------------------------------
(* Specification of parse_url_result: outputs of up to MaxUrlLines lines   *)

MaxUrlLines == 3

UrlLinePool ==
    { Line(0, "URL", 0, <<" ", "https://acme/health">>),
      Line(0, "URL", 1, <<" ", "https://acme/login", " ">>),
      Line(0, "HTTP", 0, <<" ", "200">>),
      Line(0, "HTTP", 0, <<" ", ESC, "[", "3", "1", "m", "500", ESC, "[", "0", "m">>),
      Line(0, "Time", 0, <<" ", "0.12s">>),
      Line(2, "Time", 0, <<" ", "3ss">>),
      Line(0, "Time", 0, <<" ", "7">>),
      Line(0, "Host", 0, <<" ", "host1">>) }

InitUrl ==
    /\ pc = "ready"
    /\ NoRun
    /\ text \in SeqsUpTo(UrlLinePool, MaxUrlLines)
    /\ result = Unused
    /\ parts = Unused /\ core = Unused /\ ctl_flags = Unused /\ bot_flags = Unused
    /\ state = Unused

ParseUrlResult ==
    /\ pc = "ready"
    /\ result' = parse_url_result(text)
    /\ pc' = "done"
    /\ UNCHANGED <<parts, core, ctl_flags, bot_flags, state, text, runVars>>

NextUrl == ParseUrlResult

SpecUrl == InitUrl /\ [][NextUrl]_vars

\* The value of the first line matching the label, "" when there is none.
FirstOf(label) ==
    IF MatchingLines(label) = {} THEN <<>> ELSE CleanValue(Min(MatchingLines(label)))

\* C15: for each of the labels URL, HTTP and Time the result is the value of
\* the first line carrying the label, later lines with the label do not
\* change it, and one trailing s is taken off the Time value.
C15_FirstUrlWins ==
    (pc = "done") =>
        /\ result.url = FirstOf("URL")
        /\ result.http = FirstOf("HTTP")
        /\ result.t = DropUnit(FirstOf("Time"))

-----------------------------------------------------------------------------
(* The fenced segment of a RAW payload *)

\* The places of the fence in the text of the payload.
FencePlaces == {i \in 1..Len(payload[1].text) : payload[1].text[i] = FENCE}

\* The text is closed by a fence, and the segment between the last two
\* fences.
EndsFenced == Cardinality(FencePlaces) >= 2 /\ Len(payload[1].text) \in FencePlaces
FencedSegment ==
    SubSeq(payload[1].text, Max(FencePlaces \ {Len(payload[1].text)}) + 1,
           Len(payload[1].text) - 1)

\* The tool's output without control sequences, trimmed.
TrimmedOutput == FlattenText(StripText(strip_ansi_lines(proc[1].stdout \o proc[1].stderr)))

\* C17: every RAW payload run_ctl makes from the tool's output (info, url
\* without --exec or with --raw, the status fallbacks, the other subcommands,
\* a non-zero exit) fences a segment that is the output trimmed first and cut
\* last to 3900 characters, and the segment is (no output) when the trimmed
\* output is empty.
C17_RawSegment ==
    (Returned /\ IsRaw /\ tool_runs = 1 /\ proc # <<>> /\ ~proc[1].raised) =>
        /\ EndsFenced
        /\ FencedSegment =
               Truncate(IF TrimmedOutput = <<>> THEN <<"(no output)">> ELSE TrimmedOutput,
                        3900)
        /\ StrLen(FencedSegment) <= 3900

-----------------------------------------------------------------------------
(* handle_slash: _looks_failed, _decorate_payload *)

\* "ERROR:" in a, for one atom of a text
AtomHasError(a) ==
    a # ESC /\ \E k \in 1..(Len(a) - 5) : SubSeq(a, k, k + 5) = "ERROR:"

\* "ERROR:" in text: inside one atom, or as the word and the colon after it.
HasErrorWord(txt) ==
    \/ \E i \in 1..Len(txt) : AtomHasError(txt[i])
    \/ \E i \in 1..(Len(txt) - 1) :
          /\ txt[i] # ESC /\ Len(txt[i]) >= 5
          /\ SubSeq(txt[i], Len(txt[i]) - 4, Len(txt[i])) = "ERROR"
          /\ txt[i + 1] = ":"

\* text.startswith("Exit ")
StartsWithExit(txt) ==
    txt # <<>> /\ txt[1] # ESC /\ Len(txt[1]) >= 5 /\ SubSeq(txt[1], 1, 5) = "Exit "

_looks_failed(p) ==
    LET txt == Strip(p.text)
    IN  StartsWithExit(txt) \/ HasErrorWord(txt)

\* The time run_ctl took, as it is printed.
ELAPSED == "<elapsed>"

_decorate_payload(p, ok, line) ==
    LET status == IF ok THEN "Success" ELSE "Failed"
        prefix == <<status, "  Completed in ", ELAPSED, "s">>
        cmd_line == <<"*Command:* '">> \o (IF line = <<>> THEN <<"(no args)">> ELSE line)
                    \o <<"'">>
    IN  IF "blocks" \in DOMAIN p /\ p.blocks # <<>>
        THEN [p EXCEPT !.blocks = <<Block("section", prefix \o <<"\n">> \o cmd_line), Divider>> \o @,
                       !.text = IF NonEmptyText(@) THEN @ ELSE <<status>>]
        ELSE [p EXCEPT !.text = IF NonEmptyText(@) THEN prefix \o <<"\n">> \o cmd_line \o <<"\n">> \o @
                                ELSE prefix \o <<"\n">> \o cmd_line]

-----------------------------------------------------------------------------
(* Specification of handle_slash: the command text is trimmed, run_ctl     *)
(* runs, and its payload is decorated and sent                             *)

InitSlash ==
    /\ pc = "slash"
    /\ text \in CommandLines
    /\ user_text = <<>>
    /\ proc = <<>> /\ tool_runs = 0 /\ payload = <<>>
    /\ parts = <<>> /\ core = <<>> /\ ctl_flags = <<>> /\ bot_flags = <<>>
    /\ state = Unused /\ result = Unused

\* Lines 749-759: the command text is trimmed and run_ctl is called.
SlashStart ==
    /\ pc = "slash"
    /\ user_text' = Strip(text)
    /\ pc' = "ready"
    /\ UNCHANGED <<parts, core, ctl_flags, bot_flags, state, text, result, proc, tool_runs,
                   payload>>

\* Lines 762-765: the payload run_ctl returned is decorated and sent.
Respond ==
    /\ pc = "done"
    /\ result' = <<_decorate_payload(payload[1], ~_looks_failed(payload[1]), user_text)>>
    /\ pc' = "responded"
    /\ UNCHANGED <<parts, core, ctl_flags, bot_flags, state, text, runVars>>

NextSlash == SlashStart \/ RunCtlStart \/ ToolCompletes \/ Respond

SpecSlash == InitSlash /\ [][NextSlash]_vars

\* The decoration of the payload that was sent: the status in its first
\* block when it has blocks, at the head of its text otherwise.
Decoration ==
    IF "blocks" \in DOMAIN result[1] THEN result[1].blocks[1].text[1] ELSE result[1].text[1]

\* C19: the payload that is sent is decorated Success if and only if the
\* tool was run and exited with code 0; a payload from an unknown subcommand,
\* from missing arguments, from an exception of the runner or from a non-zero
\* exit is decorated Failed, whatever the tool printed.
C19_SuccessIffExitZero ==
    (pc = "responded") =>
        /\ Decoration \in {"Success", "Failed"}
        /\ Decoration = "Success" <=>
              (tool_runs = 1 /\ proc # <<>> /\ ~proc[1].raised /\ proc[1].returncode = 0)

=============================================================================
